---- MODULE Spec2Model ----
(***************************************************************************)
(* The todo store of todo_frontend/src/App.js (the useTodos hook and its   *)
(* two localStorage helpers) as a state machine.                           *)
(*                                                                         *)
(* Strings that the code inspects character by character (titles, which    *)
(* are trimmed) are sequences of one-character strings.  A stored text is  *)
(* a sequence of JSON tokens: punctuation <<"[">>, <<"]">>, <<"{">>,       *)
(* <<"}">>, <<",">>, <<":">>, the literals <<"true">>, <<"false">>, and    *)
(* <<"str", s>> / <<"num", n>> for a string or number literal carrying its *)
(* value (the lexing of escapes and digits is not modelled, the grammar    *)
(* is).  <<"?">> is a character sequence that starts no JSON token.        *)
(***************************************************************************)
EXTENDS Integers, Sequences, FiniteSets, TLC

\* Bounds of the model.
MaxTodos == 2
MaxClock == 2
MaxRandom == 1
MaxFailures == 1

STORAGE_KEY == "todo_app_items_v1"
STORAGE_FILTER_KEY == "todo_app_filter_v1"
DEFAULT_FILTER == "all"

\* The values the three FilterButtons pass to setFilter.
FilterValues == {"all", "active", "completed"}

VARIABLES
    phase,        \* "boot": page loaded, hook not yet run; "running": mounted
    todos,        \* useState todos
    filter,       \* useState filter
    storage,      \* localStorage: key -> [present, text]
    now,          \* the last value Date.now() returned
    writeFailed,  \* per key: the last saveStorage call for it caught an error
    lastGood,     \* per key: the data of the last setItem that succeeded
    failures,     \* how many setItem calls have thrown so far
    lastEvent     \* the call that produced this state

vars == <<phase, todos, filter, storage, now, writeFailed, lastGood, failures, lastEvent>>

----------------------------------------------------------------------------
\* JSON text

LBRACK == <<"[">>
RBRACK == <<"]">>
LBRACE == <<"{">>
RBRACE == <<"}">>
COMMA == <<",">>
COLON == <<":">>
StrTok(s) == <<"str", s>>
NumTok(n) == <<"num", n>>
BoolTok(b) == IF b THEN <<"true">> ELSE <<"false">>

ParseFail == [ok |-> FALSE, val |-> <<>>, next |-> 0]
ParseOk(v, n) == [ok |-> TRUE, val |-> v, next |-> n]
Kind(toks, i) == IF i \in 1..Len(toks) THEN toks[i][1] ELSE "eof"

RECURSIVE ParseValue(_, _)
RECURSIVE ParseElements(_, _, _)
RECURSIVE ParseMembers(_, _, _)

\* value := string | number | true | false | array | object
ParseValue(toks, i) ==
    LET kind == Kind(toks, i) IN
    CASE kind \in {"str", "num"} -> ParseOk(toks[i][2], i + 1)
      [] kind = "true" -> ParseOk(TRUE, i + 1)
      [] kind = "false" -> ParseOk(FALSE, i + 1)
      [] kind = "[" ->
            IF Kind(toks, i + 1) = "]" THEN ParseOk(<<>>, i + 2)
            ELSE ParseElements(toks, i + 1, <<>>)
      [] kind = "{" ->
            IF Kind(toks, i + 1) = "}" THEN ParseOk(<<>>, i + 2)
            ELSE ParseMembers(toks, i + 1, <<>>)
      [] OTHER -> ParseFail

\* elements := value ("," value)* "]"
ParseElements(toks, i, acc) ==
    LET r == ParseValue(toks, i) IN
    IF ~r.ok THEN ParseFail
    ELSE LET kind == Kind(toks, r.next) IN
         CASE kind = "]" -> ParseOk(Append(acc, r.val), r.next + 1)
           [] kind = "," -> ParseElements(toks, r.next + 1, Append(acc, r.val))
           [] OTHER -> ParseFail

\* members := string ":" value ("," string ":" value)* "}"; a repeated key
\* keeps its last value
ParseMembers(toks, i, acc) ==
    IF Kind(toks, i) # "str" \/ Kind(toks, i + 1) # ":" THEN ParseFail
    ELSE LET r == ParseValue(toks, i + 2) IN
         IF ~r.ok THEN ParseFail
         ELSE LET obj == (toks[i][2] :> r.val) @@ acc
                  kind == Kind(toks, r.next)
              IN CASE kind = "}" -> ParseOk(obj, r.next + 1)
                   [] kind = "," -> ParseMembers(toks, r.next + 1, obj)
                   [] OTHER -> ParseFail

\* JSON.parse: the whole text must be one value; anything else throws.
JSONparse(text) ==
    LET r == ParseValue(text, 1) IN
    IF r.ok /\ r.next = Len(text) + 1 THEN r ELSE ParseFail

RECURSIVE Join(_, _)
Join(parts, sep) ==
    IF parts = <<>> THEN <<>>
    ELSE IF Len(parts) = 1 THEN parts[1]
    ELSE parts[1] \o <<sep>> \o Join(Tail(parts), sep)

\* JSON.stringify of a Todo object, keys in creation order.
stringifyTodo(t) ==
    <<LBRACE, StrTok("id"), COLON, StrTok(t.id), COMMA,
      StrTok("title"), COLON, StrTok(t.title), COMMA,
      StrTok("completed"), COLON, BoolTok(t.completed), COMMA,
      StrTok("createdAt"), COLON, NumTok(t.createdAt), RBRACE>>

\* JSON.stringify of the todos array.
stringifyTodos(list) ==
    <<LBRACK>> \o Join([i \in 1..Len(list) |-> stringifyTodo(list[i])], COMMA) \o <<RBRACK>>

\* JSON.stringify of the filter string.
stringifyFilter(f) == <<StrTok(f)>>

----------------------------------------------------------------------------
\* Helpers of App.js

\* localStorage.getItem(key): null when the key is absent.
getItem(st, key) == st[key]

\* Mutant of loadStorage: the stored text is never used.
loadStorageIgnoresStored(st, key, fallback) == fallback

\* loadStorage(key, fallback): the fallback when the key is absent, when the
\* stored text is empty (!raw) and when JSON.parse throws; else what
\* JSON.parse returns, unvalidated.
loadStorage(st, key, fallback) ==
    LET raw == getItem(st, key) IN
    IF ~raw.present \/ raw.text = <<>> THEN fallback
    ELSE LET r == JSONparse(raw.text) IN
         IF r.ok THEN r.val ELSE fallback

\* Mutant of saveStorage: setItem is never reached.
saveStorageNeverWrites(st, key, text, ok) == st

\* Mutant of saveStorage: a failed write removes the entry.
saveStorageClearsOnFailure(st, key, text, ok) ==
    [st EXCEPT ![key] = IF ok THEN [present |-> TRUE, text |-> text]
                        ELSE [present |-> FALSE, text |-> <<>>]]

\* saveStorage(key, data), text being JSON.stringify(data): setItem either
\* stores the text (ok) or throws, e.g. on exceeded quota; the catch block
\* ignores the error and the old entry stays.
saveStorage(st, key, text, ok) ==
    IF ok THEN [st EXCEPT ![key] = [present |-> TRUE, text |-> text]] ELSE st

\* uid(): `${Date.now().toString(36)}-${Math.random().toString(36).slice(2, 8)}`
\* for a clock reading t and a random suffix r; the text is one-to-one in
\* the pair.
uid(t, r) == <<t, r>>

WhiteSpace == {" ", "\t", "\n"}

RECURSIVE trimStart(_)
trimStart(s) ==
    IF s # <<>> /\ Head(s) \in WhiteSpace THEN trimStart(Tail(s)) ELSE s

RECURSIVE trimEnd(_)
trimEnd(s) ==
    IF s # <<>> /\ s[Len(s)] \in WhiteSpace THEN trimEnd(SubSeq(s, 1, Len(s) - 1)) ELSE s

\* String.prototype.trim
trim(s) == trimEnd(trimStart(s))

----------------------------------------------------------------------------
\* The updater functions of useTodos and its derived values

\* Mutant of addTodo: the new task is put last.
addTodoAppends(prev, trimmed, id, createdAt) ==
    Append(prev, [id |-> id, title |-> trimmed, completed |-> FALSE, createdAt |-> createdAt])

\* prev => [{ id: uid(), title: trimmed, completed: false, createdAt: Date.now() }, ...prev]
addTodo(prev, trimmed, id, createdAt) ==
    <<[id |-> id, title |-> trimmed, completed |-> FALSE, createdAt |-> createdAt]>> \o prev

\* Mutant of toggleTodo: completed is set instead of flipped.
toggleTodoSetsCompleted(prev, id) ==
    [i \in 1..Len(prev) |->
        IF prev[i].id = id THEN [prev[i] EXCEPT !.completed = TRUE] ELSE prev[i]]

\* prev => prev.map(t => (t.id === id ? { ...t, completed: !t.completed } : t))
toggleTodo(prev, id) ==
    [i \in 1..Len(prev) |->
        IF prev[i].id = id THEN [prev[i] EXCEPT !.completed = ~@] ELSE prev[i]]

\* Mutant of deleteTodo: === for !==.
deleteTodoKeepsMatch(prev, id) == SelectSeq(prev, LAMBDA t : t.id = id)

\* prev => prev.filter(t => t.id !== id)
deleteTodo(prev, id) == SelectSeq(prev, LAMBDA t : t.id # id)

\* Mutant of clearCompleted: the negation is missing.
clearCompletedKeepsCompleted(prev) == SelectSeq(prev, LAMBDA t : t.completed)

\* prev => prev.filter(t => !t.completed)
clearCompleted(prev) == SelectSeq(prev, LAMBDA t : ~t.completed)

\* Mutant of filtered: the two branches are swapped.
filteredSwapped(list, f) ==
    IF f = "active" THEN SelectSeq(list, LAMBDA t : t.completed)
    ELSE IF f = "completed" THEN SelectSeq(list, LAMBDA t : ~t.completed)
    ELSE list

\* the filtered memo
filtered(list, f) ==
    IF f = "active" THEN SelectSeq(list, LAMBDA t : ~t.completed)
    ELSE IF f = "completed" THEN SelectSeq(list, LAMBDA t : t.completed)
    ELSE list

\* the counts memo
counts(list) ==
    LET active == Len(SelectSeq(list, LAMBDA t : ~t.completed)) IN
    [total |-> Len(list), active |-> active, completed |-> Len(list) - active]

----------------------------------------------------------------------------
\* What localStorage may hold when the page is loaded

Keys == {STORAGE_KEY, STORAGE_FILTER_KEY}
Absent == [present |-> FALSE, text |-> <<>>]
Present(text) == [present |-> TRUE, text |-> text]

\* A task of an earlier session: Date.now() read 0 then; this session's
\* readings start at 1.
Stored(r, title, completed) ==
    [id |-> uid(0, r), title |-> title, completed |-> completed, createdAt |-> 0]

\* The todos key: absent, the empty string, a truncated text, and arrays of
\* Todo objects, one of them with the same id twice.  Texts that parse to
\* anything but an array of Todo objects (on which the first render's
\* todos.filter would throw) are not among the inputs.
StoredTodos ==
    { Absent,
      Present(<<>>),
      Present(<<LBRACK, LBRACE, StrTok("id"), COLON>>),
      Present(stringifyTodos(<<>>)),
      Present(stringifyTodos(<<Stored(0, <<"a">>, FALSE)>>)),
      Present(stringifyTodos(<<Stored(0, <<"a">>, TRUE), Stored(1, <<"b">>, FALSE)>>)),
      Present(stringifyTodos(<<Stored(0, <<"a">>, TRUE), Stored(0, <<"b">>, FALSE)>>)) }

\* The filter key: absent, the empty string, text that is not JSON, the three
\* filters, and a JSON string that is none of them.
StoredFilters ==
    { Absent,
      Present(<<>>),
      Present(<<<<"?">>>>),
      Present(stringifyFilter("all")),
      Present(stringifyFilter("active")),
      Present(stringifyFilter("completed")),
      Present(stringifyFilter("done")) }

\* Inputs of the operations
TitleInputs == { <<>>, <<" ", "\t">>, <<" ", "a", " ">> }
ClockValues == 0..MaxClock
RandomValues == 0..MaxRandom
IdInputs == { uid(t, r) : t \in ClockValues, r \in RandomValues }

\* Outcomes of setItem that the failure bound still allows, and their count
Outcomes == IF failures < MaxFailures THEN BOOLEAN ELSE {TRUE}
Thrown(oks) == Cardinality({i \in DOMAIN oks : ~oks[i]})

NeverSaved == [k \in Keys |-> [some |-> FALSE, data |-> <<>>]]
NoFailure == [k \in Keys |-> FALSE]

----------------------------------------------------------------------------
\* The state machine

Init ==
    /\ phase = "boot"
    /\ todos = <<>>
    /\ filter = DEFAULT_FILTER
    /\ storage \in { [k \in Keys |-> IF k = STORAGE_KEY THEN a ELSE b] :
                        a \in StoredTodos, b \in StoredFilters }
    /\ now = 1
    /\ writeFailed = NoFailure
    /\ lastGood = NeverSaved
    /\ failures = 0
    /\ lastEvent = "load"

\* useEffect(() => saveStorage(STORAGE_KEY, todos), [todos]) for the new todos
SaveTodos(st, list, ok) == saveStorage(st, STORAGE_KEY, stringifyTodos(list), ok)

\* useEffect(() => saveStorage(STORAGE_FILTER_KEY, filter), [filter])
SaveFilter(st, f, ok) == saveStorage(st, STORAGE_FILTER_KEY, stringifyFilter(f), ok)

Saved(good, key, data, ok) ==
    IF ok THEN [good EXCEPT ![key] = [some |-> TRUE, data |-> data]] ELSE good

\* setTodos(updater) with the render and the [todos] effect that follow it
SetTodos(list, ok) ==
    /\ todos' = list
    /\ storage' = SaveTodos(storage, list, ok)
    /\ writeFailed' = [writeFailed EXCEPT ![STORAGE_KEY] = ~ok]
    /\ lastGood' = Saved(lastGood, STORAGE_KEY, list, ok)
    /\ failures' = failures + Thrown(<<ok>>)

\* First render of useTodos: both useState initialisers, then both effects.
Mount(okTodos, okFilter) ==
    /\ phase = "boot"
    /\ phase' = "running"
    /\ todos' = loadStorage(storage, STORAGE_KEY, <<>>)
    /\ filter' = loadStorage(storage, STORAGE_FILTER_KEY, DEFAULT_FILTER)
    /\ storage' = SaveFilter(SaveTodos(storage, todos', okTodos), filter', okFilter)
    /\ writeFailed' = [k \in Keys |-> IF k = STORAGE_KEY THEN ~okTodos ELSE ~okFilter]
    /\ lastGood' = Saved(Saved(lastGood, STORAGE_KEY, todos', okTodos),
                         STORAGE_FILTER_KEY, filter', okFilter)
    /\ failures + Thrown(<<okTodos, okFilter>>) <= MaxFailures
    /\ failures' = failures + Thrown(<<okTodos, okFilter>>)
    /\ lastEvent' = "mount"
    /\ UNCHANGED now

\* addTodo(title); Date.now() reads t in uid() and then createdAt, and
\* Math.random() gives r.
AddTodo(title) ==
    /\ phase = "running"
    /\ IF trim(title) = <<>>
       THEN /\ lastEvent' = "addTodo-empty"
            /\ UNCHANGED <<phase, todos, filter, storage, now, writeFailed, lastGood, failures>>
       ELSE /\ Len(todos) < MaxTodos
            /\ lastEvent' = "addTodo"
            /\ \E t \in now..MaxClock, r \in RandomValues, ok \in Outcomes :
                 \E createdAt \in t..MaxClock :
                    /\ now' = createdAt
                    /\ SetTodos(addTodo(todos, trim(title), uid(t, r), createdAt), ok)
            /\ UNCHANGED <<phase, filter>>

ToggleTodo(id, ok) ==
    /\ phase = "running"
    /\ SetTodos(toggleTodo(todos, id), ok)
    /\ lastEvent' = "toggleTodo"
    /\ UNCHANGED <<phase, filter, now>>

DeleteTodo(id, ok) ==
    /\ phase = "running"
    /\ SetTodos(deleteTodo(todos, id), ok)
    /\ lastEvent' = "deleteTodo"
    /\ UNCHANGED <<phase, filter, now>>

ClearCompleted(ok) ==
    /\ phase = "running"
    /\ SetTodos(clearCompleted(todos), ok)
    /\ lastEvent' = "clearCompleted"
    /\ UNCHANGED <<phase, filter, now>>

\* setFilter(value) from a FilterButton: React skips the render and the
\* effect when the value is the current one.
SetFilter(value, ok) ==
    /\ phase = "running"
    /\ IF value = filter
       THEN /\ lastEvent' = "setFilter-same"
            /\ UNCHANGED <<phase, todos, filter, storage, now, writeFailed, lastGood, failures>>
       ELSE /\ filter' = value
            /\ lastEvent' = "setFilter"
            /\ failures' = failures + Thrown(<<ok>>)
            /\ storage' = SaveFilter(storage, value, ok)
            /\ writeFailed' = [writeFailed EXCEPT ![STORAGE_FILTER_KEY] = ~ok]
            /\ lastGood' = Saved(lastGood, STORAGE_FILTER_KEY, value, ok)
            /\ UNCHANGED <<phase, todos, now>>

\* The page is loaded again: the hook's state is gone, localStorage stays.
Reload ==
    /\ phase = "running"
    /\ now < MaxClock
    /\ now' = now + 1
    /\ phase' = "boot"
    /\ todos' = <<>>
    /\ filter' = DEFAULT_FILTER
    /\ writeFailed' = NoFailure
    /\ lastEvent' = "load"
    /\ UNCHANGED <<storage, lastGood, failures>>

Next ==
    \/ \E okTodos \in Outcomes, okFilter \in Outcomes : Mount(okTodos, okFilter)
    \/ \E title \in TitleInputs : AddTodo(title)
    \/ \E id \in IdInputs, ok \in Outcomes : ToggleTodo(id, ok)
    \/ \E id \in IdInputs, ok \in Outcomes : DeleteTodo(id, ok)
    \/ \E ok \in Outcomes : ClearCompleted(ok)
    \/ \E value \in FilterValues, ok \in Outcomes : SetFilter(value, ok)
    \/ Reload

Spec == Init /\ [][Next]_vars

----------------------------------------------------------------------------
\* Vocabulary of the properties

Running == phase = "running"

\* new is old restricted to the elements Keep selects, in old's order: the
\* i-th element of new is the kept element of old with i-1 kept ones before it.
IsRestriction(old, new, Keep(_)) ==
    LET kept == {j \in 1..Len(old) : Keep(old[j])} IN
    /\ Len(new) = Cardinality(kept)
    /\ \A i \in 1..Len(new) :
          \E j \in kept : /\ Cardinality({k \in kept : k < j}) = i - 1
                          /\ new[i] = old[j]

AllWhiteSpace(s) == \A k \in 1..Len(s) : s[k] \in WhiteSpace

\* s is title without its leading and trailing white space.
IsTrimmed(title, s) ==
    \E i \in 1..Len(title) + 1, j \in 0..Len(title) :
        /\ s = SubSeq(title, i, j)
        /\ \A k \in 1..(i - 1) : title[k] \in WhiteSpace
        /\ \A k \in (j + 1)..Len(title) : title[k] \in WhiteSpace
        /\ s # <<>> => (s[1] \notin WhiteSpace /\ s[Len(s)] \notin WhiteSpace)

UniqueIds(list) ==
    \A i, j \in 1..Len(list) : i # j => list[i].id # list[j].id

Serialized(key) ==
    IF key = STORAGE_KEY THEN Present(stringifyTodos(todos))
    ELSE Present(stringifyFilter(filter))

\* A task matches a filter of the enumeration.
Matches(t, f) ==
    \/ f = "all"
    \/ f = "active" /\ ~t.completed
    \/ f = "completed" /\ t.completed

----------------------------------------------------------------------------
\* C1: addTodo with a title that is empty after trimming leaves the list
\* unchanged; otherwise the new list is one new task, with the trimmed title
\* and completed = FALSE, followed by the old list unchanged.
C1_AddTodo ==
    [][\A title \in TitleInputs :
          AddTodo(title) =>
             IF AllWhiteSpace(title) THEN todos' = todos
             ELSE /\ Len(todos') = Len(todos) + 1
                  /\ Tail(todos') = todos
                  /\ IsTrimmed(title, todos'[1].title)
                  /\ todos'[1].title # <<>>
                  /\ todos'[1].completed = FALSE]_vars

\* A task with the trimmed title now stands before a task that was there.
C1_Witness ==
    /\ lastEvent = "addTodo"
    /\ Len(todos) = 2
    /\ todos[1].title = <<"a">> /\ ~todos[1].completed
    /\ todos[2].createdAt = 0

\* C2: no two tasks of the list share an id, in every reachable state.
C2_UniqueIds == UniqueIds(todos)

\* C3 as stated: in a running store the value under each key is the
\* serialized in-memory value.
C3_Persisted == Running => \A k \in Keys : storage[k] = Serialized(k)

\* C3 as amended: in a running store the value under each key is the
\* serialized in-memory value unless the last write to that key failed.
C3_PersistedUnlessFailed ==
    Running => \A k \in Keys : ~writeFailed[k] => storage[k] = Serialized(k)

\* A toggle of a stored task has been written.
C3_Witness ==
    /\ lastEvent = "toggleTodo"
    /\ todos # <<>> /\ ~todos[1].completed /\ todos[1].createdAt = 0
    /\ ~writeFailed[STORAGE_KEY]
    /\ storage[STORAGE_KEY] = Serialized(STORAGE_KEY)
    /\ failures = 0

C5_FilterEnum == filter \in FilterValues

\* What each call does to the in-memory list, as the spec words it.
Toggled(old, new, id) ==
    /\ Len(new) = Len(old)
    /\ \A i \in 1..Len(old) :
          IF old[i].id = id
          THEN /\ new[i].completed = ~old[i].completed
               /\ new[i].id = old[i].id
               /\ new[i].title = old[i].title
               /\ new[i].createdAt = old[i].createdAt
               /\ DOMAIN new[i] = DOMAIN old[i]
          ELSE new[i] = old[i]

Deleted(old, new, id) == IsRestriction(old, new, LAMBDA t : t.id # id)

Cleared(old, new) == IsRestriction(old, new, LAMBDA t : ~t.completed)

Added(old, new) ==
    /\ Len(new) = Len(old) + 1
    /\ Tail(new) = old
    /\ ~new[1].completed

InMemoryEffect ==
    CASE lastEvent' = "addTodo" -> Added(todos, todos') /\ filter' = filter
      [] lastEvent' = "toggleTodo" ->
            (\E id \in IdInputs : Toggled(todos, todos', id)) /\ filter' = filter
      [] lastEvent' = "deleteTodo" ->
            (\E id \in IdInputs : Deleted(todos, todos', id)) /\ filter' = filter
      [] lastEvent' = "clearCompleted" -> Cleared(todos, todos') /\ filter' = filter
      [] lastEvent' = "setFilter" ->
            filter' \in FilterValues \ {filter} /\ todos' = todos
      [] OTHER -> todos' = todos /\ filter' = filter

\* C6: a call whose storage write fails still takes effect in memory and
\* the store keeps running; the entry it could not write keeps its value;
\* calls made while an entry is stale act on the in-memory state; each entry
\* written at least once holds the last value written with success, and the
\* next start of the store restores exactly that value.
C6_WriteFailure ==
    [][/\ (Running /\ (failures' > failures \/ \E k \in Keys : writeFailed[k]))
             => (phase' = "running" => InMemoryEffect)
       /\ (Running /\ failures' > failures) => phase' = "running"
       /\ \A k \in Keys :
             (failures' > failures /\ writeFailed'[k]) => storage'[k] = storage[k]
       /\ \A k \in Keys :
             lastGood'[k].some =>
                LET parsed == JSONparse(storage'[k].text) IN
                /\ storage'[k].present
                /\ parsed.ok
                /\ parsed.val = lastGood'[k].data
       /\ (phase = "boot" /\ phase' = "running") =>
             /\ lastGood[STORAGE_KEY].some => todos' = lastGood[STORAGE_KEY].data
             /\ lastGood[STORAGE_FILTER_KEY].some =>
                    filter' = lastGood[STORAGE_FILTER_KEY].data]_vars

\* After a reload the store holds the stored task again although a delete
\* (whose write failed) had emptied the in-memory list before the reload.
C6_Witness ==
    /\ lastEvent = "mount"
    /\ now > 1
    /\ failures = 1
    /\ Len(todos) = 1
    /\ todos[1].createdAt = 0
    /\ ~writeFailed[STORAGE_KEY] /\ ~writeFailed[STORAGE_FILTER_KEY]

\* C7: toggleTodo(id) flips completed on the tasks with that id and changes
\* nothing else; toggling twice gives the list back; an id that matches no
\* task leaves the list unchanged.
C7_Toggle ==
    [][\A id \in IdInputs :
          (\E ok \in BOOLEAN : ToggleTodo(id, ok)) =>
             /\ Toggled(todos, todos', id)
             /\ toggleTodo(todos', id) = todos
             /\ (\A i \in 1..Len(todos) : todos[i].id # id) => todos' = todos]_vars

\* A task created in this session (so created active) is completed,
\* next to an untouched stored task.
C7_Witness ==
    /\ lastEvent = "toggleTodo"
    /\ Len(todos) = 2
    /\ todos[1].createdAt >= 1 /\ todos[1].completed
    /\ todos[2] = Stored(0, <<"a">>, FALSE)

\* C8: deleteTodo(id) removes the tasks with that id and keeps every other
\* task, unchanged and in order; an id that matches no task leaves the list
\* unchanged; deleting the only task gives the empty list, whose filtered
\* view is empty under each filter.
C8_Delete ==
    [][\A id \in IdInputs :
          (\E ok \in BOOLEAN : DeleteTodo(id, ok)) =>
             /\ Deleted(todos, todos', id)
             /\ \A i \in 1..Len(todos') : todos'[i].id # id
             /\ (\A i \in 1..Len(todos) : todos[i].id # id) => todos' = todos
             /\ (Len(todos) = 1 /\ todos[1].id = id) =>
                   /\ todos' = <<>>
                   /\ \A f \in FilterValues : filtered(todos', f) = <<>>]_vars

\* The only task was deleted: the list is empty while the entry, whose write
\* failed, still holds the one stored task.
C8_Witness ==
    /\ lastEvent = "deleteTodo"
    /\ todos = <<>>
    /\ writeFailed[STORAGE_KEY]
    /\ storage[STORAGE_KEY] = Present(stringifyTodos(<<Stored(0, <<"a">>, FALSE)>>))

\* C9: clearCompleted() removes exactly the completed tasks and keeps the
\* others, unchanged and in order; afterwards counts.completed is 0 and
\* counts.total equals counts.active.
C9_ClearCompleted ==
    [][(\E ok \in BOOLEAN : ClearCompleted(ok)) =>
          /\ Cleared(todos, todos')
          /\ \A i \in 1..Len(todos') : ~todos'[i].completed
          /\ counts(todos').completed = 0
          /\ counts(todos').total = counts(todos').active
          /\ counts(todos').total = Len(todos')]_vars

\* [A(done), B(active)] became [B]: the entry, whose write failed, still
\* holds both tasks.
C9_Witness ==
    /\ lastEvent = "clearCompleted"
    /\ todos = <<Stored(1, <<"b">>, FALSE)>>
    /\ counts(todos) = [total |-> 1, active |-> 1, completed |-> 0]
    /\ writeFailed[STORAGE_KEY]
    /\ storage[STORAGE_KEY] =
          Present(stringifyTodos(<<Stored(0, <<"a">>, TRUE), Stored(1, <<"b">>, FALSE)>>))

====
